---------------------------- MODULE Spec2Model ----------------------------
(***************************************************************************)
(* A model of the three WebSocket relay servers of medforce-meeting-bot:   *)
(*   conversation-server.py   ConversationServer     (canned text replies) *)
(*   gemini-live-server.py    GeminiLiveServer       (raw upstream socket) *)
(*   gemini-live-audio.py     GeminiLiveAudioServer  (google-genai client) *)
(* Each behaviour is a run of one of the three programs; the variable      *)
(* `server` says which, and never changes.  asyncio runs one coroutine at  *)
(* a time and switches only at an await, so an action is the code between  *)
(* two suspension points.  In the two Gemini servers a client has two     *)
(* flows, its message loop and the relay task of its session, and an       *)
(* `await websocket.send` of one may be suspended while the other runs:    *)
(* there a send is two steps when it suspends.  In conversation-server.py  *)
(* a connection has its message loop only, and nothing else touches what   *)
(* the loop reads or writes while one of its sends is suspended: there a   *)
(* send is part of the step that makes it.                                 *)
(*                                                                         *)
(* What is modelled is the handler classes as websockets.serve drives      *)
(* them.  Left out: the timestamps of the envelopes (datetime.now,         *)
(* loop.time), which no handler reads back; logging; and cancellation of   *)
(* a handler task, which happens only when the process shuts down.  The    *)
(* libraries are taken by their contract: send on a closed connection      *)
(* raises ConnectionClosed, frames received before the close are still     *)
(* iterated, close() does not raise.                                       *)
(*                                                                         *)
(* Text is a sequence of one-character strings, so that lower(), `in` and  *)
(* the f-string of generate_response are computed, not assumed.            *)
(***************************************************************************)
EXTENDS Integers, Sequences, FiniteSets, TLC

VARIABLES
    server,              \* which of the three programs this behaviour runs
    conn,                \* per connection: the client's side of the transport
    inbox,               \* per connection: frames received, not yet iterated
    nframes,             \* frames the clients have sent so far, all together
    pc,                  \* per connection: where handle_client is
    clients,             \* self.clients
    conversations,       \* ConversationServer.conversations
    uuid_next,           \* the next value uuid.uuid4() returns
    sent,                \* per connection: envelopes written to the client
    gemini_connections,  \* GeminiLiveServer.gemini_connections
    gemini_sessions,     \* GeminiLiveAudioServer.gemini_sessions
    upstream,            \* every upstream session ever opened, in order
    gr_input,            \* generate_response alone: its argument
    gr_output            \* generate_response alone: its result

vars == <<server, conn, inbox, nframes, pc, clients, conversations, uuid_next,
          sent, gemini_connections, gemini_sessions, upstream,
          gr_input, gr_output>>

-----------------------------------------------------------------------------
(* Bounds *)

MaxFrames == 2
MaxInbox == 2
MaxStarts == 2
MaxResponses == 2
MaxWords == 2

\* Two connection identities: one to act while the other holds state.
Conns == {1, 2}

-----------------------------------------------------------------------------
(* Text *)

UpperToLower ==
    [ch \in {"A","B","C","D","E","F","G","H","I","J","K","L","M","N","O","P",
             "Q","R","S","T","U","V","W","X","Y","Z"} |->
       CASE ch = "A" -> "a" [] ch = "B" -> "b" [] ch = "C" -> "c"
         [] ch = "D" -> "d" [] ch = "E" -> "e" [] ch = "F" -> "f"
         [] ch = "G" -> "g" [] ch = "H" -> "h" [] ch = "I" -> "i"
         [] ch = "J" -> "j" [] ch = "K" -> "k" [] ch = "L" -> "l"
         [] ch = "M" -> "m" [] ch = "N" -> "n" [] ch = "O" -> "o"
         [] ch = "P" -> "p" [] ch = "Q" -> "q" [] ch = "R" -> "r"
         [] ch = "S" -> "s" [] ch = "T" -> "t" [] ch = "U" -> "u"
         [] ch = "V" -> "v" [] ch = "W" -> "w" [] ch = "X" -> "x"
         [] ch = "Y" -> "y" [] ch = "Z" -> "z"]

\* str.lower()
lower(s) ==
    [i \in 1..Len(s) |->
       IF s[i] \in DOMAIN UpperToLower THEN UpperToLower[s[i]] ELSE s[i]]

\* Python's `t in s` on strings
In(t, s) ==
    \E i \in 0..(Len(s) - Len(t)) : SubSeq(s, i + 1, i + Len(t)) = t

T_hello == <<"h","e","l","l","o">>
T_hi == <<"h","i">>
T_how_are_you == <<"h","o","w"," ","a","r","e"," ","y","o","u">>
T_what_is_your_name ==
    <<"w","h","a","t"," ","i","s"," ","y","o","u","r"," ","n","a","m","e">>
T_help == <<"h","e","l","p">>
T_bye == <<"b","y","e">>
T_goodbye == <<"g","o","o","d","b","y","e">>
T_thank == <<"t","h","a","n","k">>

\* The fixed replies; a reply is a sequence of text chunks.
R_hello == <<"Hello! How can I help you today?">>
R_how == <<"I'm doing well, thank you for asking! How are you?">>
R_name == <<"I'm MedForce AI, your meeting assistant. I'm here to help with your meeting needs.">>
R_help == <<"I can help you with meeting assistance, answering questions, and providing information. What would you like to know?">>
R_bye == <<"Goodbye! Have a great day!">>
R_thank == <<"You're welcome! Is there anything else I can help you with?">>

\* f"I understand you said: '{user_message}'. How can I assist you further?"
EchoReply(user_message) ==
    <<"I understand you said: '">> \o user_message
        \o <<"'. How can I assist you further?">>

\* A slip in the rule order: "thank" tested before "bye".
generate_response_thank_first(user_message) ==
    LET user_message_lower == lower(user_message) IN
    IF In(T_hello, user_message_lower) \/ In(T_hi, user_message_lower)
      THEN R_hello
    ELSE IF In(T_how_are_you, user_message_lower) THEN R_how
    ELSE IF In(T_what_is_your_name, user_message_lower) THEN R_name
    ELSE IF In(T_help, user_message_lower) THEN R_help
    ELSE IF In(T_thank, user_message_lower) THEN R_thank
    ELSE IF In(T_bye, user_message_lower) \/ In(T_goodbye, user_message_lower)
      THEN R_bye
    ELSE EchoReply(user_message)

generate_response(user_message) ==
    LET user_message_lower == lower(user_message) IN
    IF In(T_hello, user_message_lower) \/ In(T_hi, user_message_lower)
      THEN R_hello
    ELSE IF In(T_how_are_you, user_message_lower) THEN R_how
    ELSE IF In(T_what_is_your_name, user_message_lower) THEN R_name
    ELSE IF In(T_help, user_message_lower) THEN R_help
    ELSE IF In(T_bye, user_message_lower) \/ In(T_goodbye, user_message_lower)
      THEN R_bye
    ELSE IF In(T_thank, user_message_lower) THEN R_thank
    ELSE EchoReply(user_message)

\* Inputs of generate_response: up to MaxWords words joined by blanks.
Words ==
    { <<"H","e","l","l","o">>, <<"t","h","i","s">>,
      <<"h","o","w"," ","a","r","e">>, <<"y","o","u">>,
      <<"W","h","a","t"," ","i","s"," ","y","o","u","r"," ","n","a","m","e">>,
      <<"H","E","L","P">>, <<"b","y","e">>, <<"G","o","o","d","b","y","e">>,
      <<"T","h","a","n","k","s">>, <<"O","K">>, <<"t","h","e","r","e">> }

RECURSIVE Join(_)
Join(ws) ==
    IF Len(ws) = 0 THEN <<>>
    ELSE IF Len(ws) = 1 THEN ws[1]
    ELSE ws[1] \o <<" ">> \o Join(Tail(ws))

Inputs ==
    { Join(ws) : ws \in UNION { [1..n -> Words] : n \in 0..MaxWords } }

\* The texts a client puts in a text_message in the server runs.
M_hello_there == <<"H","e","l","l","o"," ","t","h","e","r","e">>
M_ok == <<"O","K">>


-----------------------------------------------------------------------------
(* Values, frames and envelopes *)

\* A JSON value of a frame's field: a string, some other value (a number),
\* or no such key.
Str(chars) == [t |-> "str", v |-> chars]
NotAString == [t |-> "int", v |-> <<>>]
Absent == [t |-> "absent", v |-> <<>>]

\* An inbound frame: text that is a JSON object, JSON that is no object
\* (a list, a number), or text that is no JSON at all.
Frame(type, field) == [json |-> "object", type |-> type, field |-> field]
NonObjectFrame == [json |-> "nonobject", type |-> "", field |-> Absent]
NotJsonFrame == [json |-> "notjson", type |-> "", field |-> Absent]

MessageValues == {Str(M_hello_there), Str(M_ok), NotAString, Absent}

ConversationFrames ==
    {Frame("text_message", m) : m \in MessageValues}
      \cup {Frame("audio_message", Absent), Frame("get_history", Absent),
            Frame("unknown", Absent), Frame("", Absent),
            NonObjectFrame, NotJsonFrame}

GeminiFrames ==
    {Frame("start-gemini", Absent),
     Frame("audio-data", Str(<<"A","A","=","=">>)), Frame("audio-data", Absent),
     Frame("stop-gemini", Absent), Frame("unknown", Absent),
     Frame("", Absent), NonObjectFrame, NotJsonFrame}

\* An outbound envelope; `body` is the field that matters for its type.
Envelope(type, body) == [type |-> type, body |-> body]

\* dict operations
Put(d, k, v) == [x \in DOMAIN d \cup {k} |-> IF x = k THEN v ELSE d[x]]
Del(d, k) == [x \in DOMAIN d \ {k} |-> d[x]]
EmptyDict == [x \in {} |-> 0]

-----------------------------------------------------------------------------
(* The environment: clients *)

Connect(c) ==
    /\ conn[c] = "none"
    /\ conn' = [conn EXCEPT ![c] = "open"]
    /\ UNCHANGED <<server, inbox, nframes, pc, clients, conversations,
                   uuid_next, sent, gemini_connections, gemini_sessions,
                   upstream, gr_input, gr_output>>

FramesOf(s) ==
    IF s = "conversation-server" THEN ConversationFrames ELSE GeminiFrames

ClientSend(c) ==
    /\ conn[c] = "open"
    /\ nframes < MaxFrames
    /\ Len(inbox[c]) < MaxInbox
    /\ \E f \in FramesOf(server) :
         inbox' = [inbox EXCEPT ![c] = Append(@, f)]
    /\ nframes' = nframes + 1
    /\ UNCHANGED <<server, conn, pc, clients, conversations, uuid_next, sent,
                   gemini_connections, gemini_sessions, upstream,
                   gr_input, gr_output>>

ClientClose(c) ==
    /\ conn[c] = "open"
    /\ conn' = [conn EXCEPT ![c] = "closed"]
    /\ UNCHANGED <<server, inbox, nframes, pc, clients, conversations,
                   uuid_next, sent, gemini_connections, gemini_sessions,
                   upstream, gr_input, gr_output>>

-----------------------------------------------------------------------------
(* conversation-server.py *)

UserEntry(m) == [role |-> "user", message |-> m]
AssistantEntry(r) == [role |-> "assistant", message |-> r]

\* The result of handling one frame: the history afterwards and the
\* envelopes the handler sends, in order.
Handled(history, out) == [history |-> history, out |-> out]

\* A slip: the reply is sent but not recorded.
handle_text_message_no_record(history, data) ==
    LET user_message == IF data.field.t = "absent" THEN Str(<<>>)
                        ELSE data.field
        h1 == Append(history, UserEntry(user_message))
    IN  IF user_message.t = "str"
          THEN LET response == generate_response(user_message.v)
               IN  Handled(h1, <<Envelope("text_response", Str(response))>>)
          ELSE Handled(h1, <<Envelope("error", "Server error")>>)

\* A slip: the pair is put in front of the history, not at its end.
handle_text_message_prepends(history, data) ==
    LET user_message == IF data.field.t = "absent" THEN Str(<<>>)
                        ELSE data.field
    IN  IF user_message.t = "str"
          THEN LET response == generate_response(user_message.v)
               IN  Handled(<<UserEntry(user_message),
                             AssistantEntry(Str(response))>> \o history,
                           <<Envelope("text_response", Str(response))>>)
          ELSE Handled(<<UserEntry(user_message)>> \o history,
                       <<Envelope("error", "Server error")>>)

\* handle_text_message, with the `except Exception` of handle_message that
\* catches what it raises: a message that is no string has no lower(), so
\* the user entry stays and the client gets a server error.
handle_text_message(history, data) ==
    LET user_message == IF data.field.t = "absent" THEN Str(<<>>)
                        ELSE data.field
        h1 == Append(history, UserEntry(user_message))
    IN  IF user_message.t = "str"
          THEN LET response == generate_response(user_message.v)
               IN  Handled(Append(h1, AssistantEntry(Str(response))),
                           <<Envelope("text_response", Str(response))>>)
          ELSE Handled(h1, <<Envelope("error", "Server error")>>)

\* A slip: the audio frame is recorded in the history as a user entry.
handle_audio_message_records(history, data) ==
    Handled(Append(history, UserEntry(Str(<<>>))),
            <<Envelope("audio_response", "Audio received and processed")>>)

handle_audio_message(history, data) ==
    Handled(history, <<Envelope("audio_response", "Audio received and processed")>>)

\* A slip: only the latest entry is sent.
send_conversation_history_latest_only(history) ==
    Handled(history,
            <<Envelope("conversation_history",
                       IF history = <<>> THEN <<>>
                       ELSE <<history[Len(history)]>>)>>)

send_conversation_history(history) ==
    Handled(history, <<Envelope("conversation_history", history)>>)

\* A slip: a type that is not known is answered with an error envelope.
handle_message_reports_unknown(history, message) ==
    IF message.json = "notjson"
      THEN Handled(history, <<Envelope("error", "Invalid JSON format")>>)
    ELSE IF message.json = "nonobject"
      THEN Handled(history, <<Envelope("error", "Server error")>>)
    ELSE IF message.type = "text_message"
      THEN handle_text_message(history, message)
    ELSE IF message.type = "audio_message"
      THEN handle_audio_message(history, message)
    ELSE IF message.type = "get_history"
      THEN send_conversation_history(history)
    ELSE Handled(history, <<Envelope("error", "Unknown message type")>>)

handle_message(history, message) ==
    IF message.json = "notjson"
      THEN Handled(history, <<Envelope("error", "Invalid JSON format")>>)
    ELSE IF message.json = "nonobject"
      THEN Handled(history, <<Envelope("error", "Server error")>>)
    ELSE IF message.type = "text_message"
      THEN handle_text_message(history, message)
    ELSE IF message.type = "audio_message"
      THEN handle_audio_message(history, message)
    ELSE IF message.type = "get_history"
      THEN send_conversation_history(history)
    ELSE Handled(history, <<>>)

\* A slip: the welcome carries an id made anew, not the one stored.
Conv_register_client_other_id(c) ==
    /\ server = "conversation-server"
    /\ pc[c] = "idle"
    /\ conn[c] # "none"
    /\ clients' = clients \cup {c}
    /\ conversations' =
         Put(conversations, c, [id |-> uuid_next, history |-> <<>>])
    /\ uuid_next' = uuid_next + 1
    /\ IF conn[c] = "open"
         THEN /\ sent' = [sent EXCEPT
                    ![c] = Append(@, Envelope("welcome", uuid_next + 1))]
              /\ pc' = [pc EXCEPT ![c] = "loop"]
         ELSE /\ pc' = [pc EXCEPT ![c] = "raised"]
              /\ UNCHANGED sent
    /\ UNCHANGED <<server, conn, inbox, nframes, gemini_connections,
                   gemini_sessions, upstream, gr_input, gr_output>>

\* handle_client up to its try: register_client.  The welcome is sent
\* outside the try, so a connection that is already closed makes the
\* handler end with the exception and without unregister_client.
Conv_register_client(c) ==
    /\ server = "conversation-server"
    /\ pc[c] = "idle"
    /\ conn[c] # "none"
    /\ clients' = clients \cup {c}
    /\ conversations' =
         Put(conversations, c, [id |-> uuid_next, history |-> <<>>])
    /\ uuid_next' = uuid_next + 1
    /\ IF conn[c] = "open"
         THEN /\ sent' = [sent EXCEPT
                    ![c] = Append(@, Envelope("welcome", uuid_next))]
              /\ pc' = [pc EXCEPT ![c] = "loop"]
         ELSE /\ pc' = [pc EXCEPT ![c] = "raised"]
              /\ UNCHANGED sent
    /\ UNCHANGED <<server, conn, inbox, nframes, gemini_connections,
                   gemini_sessions, upstream, gr_input, gr_output>>

\* One iteration of `async for message in websocket`.
Conv_handle_message(c) ==
    /\ server = "conversation-server"
    /\ pc[c] = "loop"
    /\ inbox[c] # <<>>
    /\ LET r == handle_message(conversations[c].history, Head(inbox[c])) IN
         /\ conversations' = [conversations EXCEPT ![c].history = r.history]
         /\ IF r.out = <<>>
              THEN UNCHANGED <<sent, pc>>
            ELSE IF conn[c] = "open"
              THEN /\ sent' = [sent EXCEPT ![c] = @ \o r.out]
                   /\ UNCHANGED pc
            ELSE /\ pc' = [pc EXCEPT ![c] = "finally"]
                 /\ UNCHANGED sent
    /\ inbox' = [inbox EXCEPT ![c] = Tail(@)]
    /\ UNCHANGED <<server, conn, nframes, clients, uuid_next,
                   gemini_connections, gemini_sessions, upstream,
                   gr_input, gr_output>>

\* The client stream ends (or raises ConnectionClosed, which is passed).
Conv_stream_end(c) ==
    /\ server = "conversation-server"
    /\ pc[c] = "loop"
    /\ inbox[c] = <<>>
    /\ conn[c] = "closed"
    /\ pc' = [pc EXCEPT ![c] = "finally"]
    /\ UNCHANGED <<server, conn, inbox, nframes, clients, conversations,
                   uuid_next, sent, gemini_connections, gemini_sessions,
                   upstream, gr_input, gr_output>>

\* What unregister_client reads and writes: the set of clients, the
\* per-connection map of the server, and the upstream sessions.
Held(map) == [clients |-> clients, map |-> map, upstream |-> upstream]

\* The result of one call of unregister_client: what is held afterwards,
\* the sessions the call has closed, and whether it raised.
Unregistered(cs, map, ss, closed) ==
    [clients |-> cs, map |-> map, upstream |-> ss,
     closed |-> closed, raised |-> FALSE]

\* unregister_client of conversation-server.py: discard, and delete the
\* entry when there is one.
Conv_unregister(held, c) ==
    IF c \in DOMAIN held.map
      THEN Unregistered(held.clients \ {c}, Del(held.map, c),
                        held.upstream, {})
      ELSE Unregistered(held.clients \ {c}, held.map, held.upstream, {})

\* A slip: the whole map is emptied, not the one entry deleted.
Conv_unregister_client_clears_all(c) ==
    /\ server = "conversation-server"
    /\ pc[c] = "finally"
    /\ clients' = clients \ {c}
    /\ conversations' = EmptyDict
    /\ pc' = [pc EXCEPT ![c] = "done"]
    /\ UNCHANGED <<server, conn, inbox, nframes, uuid_next, sent,
                   gemini_connections, gemini_sessions, upstream,
                   gr_input, gr_output>>

\* finally: unregister_client
Conv_unregister_client(c) ==
    /\ server = "conversation-server"
    /\ pc[c] = "finally"
    /\ LET r == Conv_unregister(Held(conversations), c) IN
         /\ clients' = r.clients
         /\ conversations' = r.map
    /\ pc' = [pc EXCEPT ![c] = "done"]
    /\ UNCHANGED <<server, conn, inbox, nframes, uuid_next, sent,
                   gemini_connections, gemini_sessions, upstream,
                   gr_input, gr_output>>

-----------------------------------------------------------------------------
(* Upstream sessions, shared by the two Gemini servers *)

\* An upstream session: the connection it was opened for, the state of its
\* channel ("open", "closed" by close(), "lost" by a transport failure), the
\* response-relay task spawned for it ("none", "running", "ended", or
\* "crashed" when it ended with an exception nobody retrieves), the
\* number of responses the task has taken from it and what the latest of
\* them carried.
Session(c, state) ==
    [owner |-> c, state |-> state, task |-> "none", received |-> 0,
     last |-> "none"]

\* What an upstream response carries: text, audio bytes, both, or neither
\* (a turn-complete notice, say, or in gemini-live-server.py a message
\* that is no JSON).
ResponseKinds == {"text", "audio", "both", "neither"}

Sessions == 1..Len(upstream)

\* Responses taken from all sessions so far.
RECURSIVE ReceivedUpTo(_)
ReceivedUpTo(n) ==
    IF n = 0 THEN 0 ELSE upstream[n].received + ReceivedUpTo(n - 1)

\* close() of a session: idempotent, and a lost channel stays lost.
Closed(ss, s) ==
    [ss EXCEPT ![s].state = IF @ = "open" THEN "closed" ELSE @]

\* The environment: the upstream channel fails.
UpstreamLost(s) ==
    /\ s \in Sessions
    /\ upstream[s].state = "open"
    /\ upstream' = [upstream EXCEPT ![s].state = "lost"]
    /\ UNCHANGED <<server, conn, inbox, nframes, pc, clients, conversations,
                   uuid_next, sent, gemini_connections, gemini_sessions,
                   gr_input, gr_output>>

\* websocket.send of one envelope: the sequence written, empty when the
\* connection is closed (send raises ConnectionClosed).
Written(c, envelope) ==
    IF conn[c] = "open" THEN Append(sent[c], envelope) ELSE sent[c]

\* A slip: `del` with no membership test before it raises KeyError for a
\* connection that has no entry.
unregister_client_unguarded(held, c) ==
    IF c \in DOMAIN held.map
      THEN Unregistered(held.clients \ {c}, Del(held.map, c),
                        Closed(held.upstream, held.map[c]), {held.map[c]})
      ELSE [Unregistered(held.clients \ {c}, held.map, held.upstream, {})
              EXCEPT !.raised = TRUE]

\* unregister_client of the two Gemini servers: discard, and when the
\* connection has an entry, close the session stored there and delete it.
unregister_client(held, c) ==
    IF c \in DOMAIN held.map
      THEN Unregistered(held.clients \ {c}, Del(held.map, c),
                        Closed(held.upstream, held.map[c]), {held.map[c]})
      ELSE Unregistered(held.clients \ {c}, held.map, held.upstream, {})

\* Where the message loop of c is after `await websocket.send(...)` was
\* entered: the send returned at once, or the handler is suspended inside
\* it ("in_send") and other tasks run before it returns.  A send on a
\* connection that is closed raises at once.
AfterSend(c) == IF conn[c] = "open" THEN {"loop", "in_send"} ELSE {"loop"}

\* The same for a relay task.
TaskAfterSend(c) ==
    IF conn[c] = "open" THEN {"running", "in_send"} ELSE {"running"}

-----------------------------------------------------------------------------
(* gemini-live-server.py *)

Gem_register_client(c) ==
    /\ server = "gemini-live-server"
    /\ pc[c] = "idle"
    /\ conn[c] # "none"
    /\ clients' = clients \cup {c}
    /\ pc' = [pc EXCEPT ![c] = "loop"]
    /\ UNCHANGED <<server, conn, inbox, nframes, conversations, uuid_next,
                   sent, gemini_connections, gemini_sessions, upstream,
                   gr_input, gr_output>>

\* The head of the inbox is a JSON object of this type.
Gem_next_is(c, type) ==
    /\ server = "gemini-live-server"
    /\ pc[c] = "loop"
    /\ inbox[c] # <<>>
    /\ Head(inbox[c]).json = "object"
    /\ Head(inbox[c]).type = type

\* connect_to_gemini up to `await gemini_ws.recv()`.  Every exception ends
\* in the except clause, which only sends the error envelope; when that
\* send raises too, handle_client_message logs it.
Gem_connect_to_gemini(c) ==
    /\ Gem_next_is(c, "start-gemini")
    /\ inbox' = [inbox EXCEPT ![c] = Tail(@)]
    /\ \/ \* websockets.connect raises
          /\ sent' = [sent EXCEPT ![c] =
                 Written(c, Envelope("error", "Failed to connect to Gemini Live API"))]
          /\ \E p \in AfterSend(c) : pc' = [pc EXCEPT ![c] = p]
          /\ UNCHANGED <<upstream, gemini_connections>>
       \/ \* connected, and gemini_ws.send(setup) raises
          /\ Len(upstream) < MaxStarts
          /\ upstream' = Append(upstream, Session(c, "lost"))
          /\ gemini_connections' =
                 Put(gemini_connections, c, Len(upstream) + 1)
          /\ sent' = [sent EXCEPT ![c] =
                 Written(c, Envelope("error", "Failed to connect to Gemini Live API"))]
          /\ \E p \in AfterSend(c) : pc' = [pc EXCEPT ![c] = p]
       \/ \* connected, setup sent: wait for the setup response
          /\ Len(upstream) < MaxStarts
          /\ upstream' = Append(upstream, Session(c, "open"))
          /\ gemini_connections' =
                 Put(gemini_connections, c, Len(upstream) + 1)
          /\ pc' = [pc EXCEPT ![c] = "await_setup"]
          /\ UNCHANGED sent
    /\ UNCHANGED <<server, conn, nframes, clients, conversations, uuid_next,
                   gemini_sessions, gr_input, gr_output>>

\* connect_to_gemini from `await gemini_ws.recv()` on.
Gem_setup_response(c) ==
    /\ server = "gemini-live-server"
    /\ pc[c] = "await_setup"
    /\ LET s == gemini_connections[c] IN
       \/ \* recv raises: the channel was lost
          /\ upstream[s].state = "lost"
          /\ sent' = [sent EXCEPT ![c] =
                 Written(c, Envelope("error", "Failed to connect to Gemini Live API"))]
          /\ \E p \in AfterSend(c) : pc' = [pc EXCEPT ![c] = p]
          /\ UNCHANGED upstream
       \/ \* the response is no JSON: json.loads raises
          /\ upstream[s].state = "open"
          /\ sent' = [sent EXCEPT ![c] =
                 Written(c, Envelope("error", "Failed to connect to Gemini Live API"))]
          /\ \E p \in AfterSend(c) : pc' = [pc EXCEPT ![c] = p]
          /\ UNCHANGED upstream
       \/ \* setupComplete: gemini-ready, then the relay task; when the
          \* client is gone the send raises and no task is created, and
          \* while the send is suspended the task is not created yet
          /\ upstream[s].state = "open"
          /\ sent' = [sent EXCEPT ![c] =
                 Written(c, Envelope("gemini-ready", "Gemini Live setup completed, ready for audio"))]
          /\ \/ /\ conn[c] = "open"
                /\ upstream' = [upstream EXCEPT ![s].task = "running"]
                /\ pc' = [pc EXCEPT ![c] = "loop"]
             \/ /\ conn[c] = "open"
                /\ pc' = [pc EXCEPT ![c] = "in_send_ready"]
                /\ UNCHANGED upstream
             \/ /\ conn[c] # "open"
                /\ pc' = [pc EXCEPT ![c] = "loop"]
                /\ UNCHANGED upstream
       \/ \* a JSON response without setupComplete: no envelope, and the
          \* relay task is created all the same
          /\ upstream[s].state = "open"
          /\ upstream' = [upstream EXCEPT ![s].task = "running"]
          /\ pc' = [pc EXCEPT ![c] = "loop"]
          /\ UNCHANGED sent
    /\ UNCHANGED <<server, conn, inbox, nframes, clients, conversations,
                   uuid_next, gemini_connections, gemini_sessions,
                   gr_input, gr_output>>

Gem_send_audio_to_gemini(c) ==
    /\ Gem_next_is(c, "audio-data")
    /\ inbox' = [inbox EXCEPT ![c] = Tail(@)]
    /\ IF c \notin DOMAIN gemini_connections
         THEN UNCHANGED <<sent, pc>>          \* logger.warning, return
       ELSE IF upstream[gemini_connections[c]].state = "open"
         THEN UNCHANGED <<sent, pc>>          \* forwarded upstream
       ELSE /\ sent' = [sent EXCEPT ![c] =
                   Written(c, Envelope("error", "Failed to send audio to Gemini"))]
            /\ \E p \in AfterSend(c) : pc' = [pc EXCEPT ![c] = p]
    /\ UNCHANGED <<server, conn, nframes, clients, conversations,
                   uuid_next, gemini_connections, gemini_sessions, upstream,
                   gr_input, gr_output>>

\* A suspended `await websocket.send(...)` of the message loop returns (or
\* raises, the client being gone).  After an error envelope nothing more
\* is done; after gemini-ready the relay task is created if the send
\* returned, and if it raised the except clause's own send raises too.
Gem_send_returns(c) ==
    /\ server = "gemini-live-server"
    /\ \/ /\ pc[c] = "in_send"
          /\ UNCHANGED upstream
       \/ /\ pc[c] = "in_send_ready"
          /\ upstream' =
               [upstream EXCEPT ![gemini_connections[c]].task = "running"]
       \/ /\ pc[c] = "in_send_ready"
          /\ conn[c] # "open"
          /\ UNCHANGED upstream
    /\ pc' = [pc EXCEPT ![c] = "loop"]
    /\ UNCHANGED <<server, conn, inbox, nframes, clients, conversations,
                   uuid_next, sent, gemini_connections, gemini_sessions,
                   gr_input, gr_output>>

\* A slip: the connection is closed and its entry is left in the map.
Gem_stop_gemini_connection_keeps_entry(c) ==
    /\ Gem_next_is(c, "stop-gemini")
    /\ inbox' = [inbox EXCEPT ![c] = Tail(@)]
    /\ IF c \in DOMAIN gemini_connections
         THEN upstream' = Closed(upstream, gemini_connections[c])
         ELSE UNCHANGED upstream
    /\ UNCHANGED <<server, conn, nframes, pc, clients, conversations,
                   uuid_next, sent, gemini_connections, gemini_sessions,
                   gr_input, gr_output>>

Gem_stop_gemini_connection(c) ==
    /\ Gem_next_is(c, "stop-gemini")
    /\ inbox' = [inbox EXCEPT ![c] = Tail(@)]
    /\ IF c \in DOMAIN gemini_connections
         THEN /\ upstream' = Closed(upstream, gemini_connections[c])
              /\ gemini_connections' = Del(gemini_connections, c)
         ELSE UNCHANGED <<upstream, gemini_connections>>
    /\ UNCHANGED <<server, conn, nframes, pc, clients, conversations,
                   uuid_next, sent, gemini_sessions, gr_input, gr_output>>

\* handle_client_message for a frame that is only logged: an unknown type,
\* text that is no JSON, JSON that is no object.
Gem_log_only(c) ==
    /\ server = "gemini-live-server"
    /\ pc[c] = "loop"
    /\ inbox[c] # <<>>
    /\ \/ Head(inbox[c]).json # "object"
       \/ Head(inbox[c]).type
            \notin {"start-gemini", "audio-data", "stop-gemini"}
    /\ inbox' = [inbox EXCEPT ![c] = Tail(@)]
    /\ UNCHANGED <<server, conn, nframes, pc, clients, conversations,
                   uuid_next, sent, gemini_connections, gemini_sessions,
                   upstream, gr_input, gr_output>>

Gem_stream_end(c) ==
    /\ server = "gemini-live-server"
    /\ pc[c] = "loop"
    /\ inbox[c] = <<>>
    /\ conn[c] = "closed"
    /\ pc' = [pc EXCEPT ![c] = "finally"]
    /\ UNCHANGED <<server, conn, inbox, nframes, clients, conversations,
                   uuid_next, sent, gemini_connections, gemini_sessions,
                   upstream, gr_input, gr_output>>

Gem_unregister_client(c) ==
    /\ server = "gemini-live-server"
    /\ pc[c] = "finally"
    /\ LET r == unregister_client(Held(gemini_connections), c) IN
         /\ clients' = r.clients
         /\ gemini_connections' = r.map
         /\ upstream' = r.upstream
    /\ pc' = [pc EXCEPT ![c] = "done"]
    /\ UNCHANGED <<server, conn, inbox, nframes, conversations, uuid_next,
                   sent, gemini_sessions, gr_input, gr_output>>

\* handle_gemini_responses: one iteration of `async for message in
\* gemini_ws`.  The inner try logs whatever the iteration raises, a failed
\* send to the client included, and the loop goes on.
Gem_relay_response(s) ==
    /\ s \in Sessions
    /\ server = "gemini-live-server"
    /\ upstream[s].task = "running"
    /\ upstream[s].state = "open"
    /\ ReceivedUpTo(Len(upstream)) < MaxResponses
    /\ \E response \in ResponseKinds :
         IF response \in {"text", "both"}
           THEN \* the text parts, joined, are not empty
                /\ sent' = [sent EXCEPT ![upstream[s].owner] =
                     Written(upstream[s].owner,
                             Envelope("gemini-response", "text"))]
                /\ \E t \in TaskAfterSend(upstream[s].owner) :
                     upstream' = [upstream EXCEPT ![s].received = @ + 1,
                                                  ![s].last = response,
                                                  ![s].task = t]
           ELSE \* no text part: only logged, inline audio too
                /\ upstream' = [upstream EXCEPT ![s].received = @ + 1,
                                                ![s].last = response]
                /\ UNCHANGED sent
    /\ UNCHANGED <<server, conn, inbox, nframes, pc, clients, conversations,
                   uuid_next, gemini_connections, gemini_sessions,
                   gr_input, gr_output>>

\* handle_gemini_responses: a suspended send to the client returns, or
\* raises into the inner try, which logs; the loop goes on either way.
Gem_relay_send_returns(s) ==
    /\ s \in Sessions
    /\ server = "gemini-live-server"
    /\ upstream[s].task = "in_send"
    /\ upstream' = [upstream EXCEPT ![s].task = "running"]
    /\ UNCHANGED <<server, conn, inbox, nframes, pc, clients, conversations,
                   uuid_next, sent, gemini_connections, gemini_sessions,
                   gr_input, gr_output>>

\* handle_gemini_responses: the iteration ends (the channel was closed) or
\* raises ConnectionClosed (it was lost); both end the task quietly.
Gem_relay_end(s) ==
    /\ s \in Sessions
    /\ server = "gemini-live-server"
    /\ upstream[s].task = "running"
    /\ upstream[s].state # "open"
    /\ upstream' = [upstream EXCEPT ![s].task = "ended"]
    /\ UNCHANGED <<server, conn, inbox, nframes, pc, clients, conversations,
                   uuid_next, sent, gemini_connections, gemini_sessions,
                   gr_input, gr_output>>

-----------------------------------------------------------------------------
(* gemini-live-audio.py *)

Aud_register_client(c) ==
    /\ server = "gemini-live-audio"
    /\ pc[c] = "idle"
    /\ conn[c] # "none"
    /\ clients' = clients \cup {c}
    /\ pc' = [pc EXCEPT ![c] = "loop"]
    /\ UNCHANGED <<server, conn, inbox, nframes, conversations, uuid_next,
                   sent, gemini_connections, gemini_sessions, upstream,
                   gr_input, gr_output>>

Aud_next_is(c, type) ==
    /\ server = "gemini-live-audio"
    /\ pc[c] = "loop"
    /\ inbox[c] # <<>>
    /\ Head(inbox[c]).json = "object"
    /\ Head(inbox[c]).type = type

\* start_gemini_session.  The session is stored before gemini-ready is
\* sent and the task is created after it: a client that is gone leaves the
\* session stored and no task.
Aud_start_gemini_session(c) ==
    /\ Aud_next_is(c, "start-gemini")
    /\ inbox' = [inbox EXCEPT ![c] = Tail(@)]
    /\ \/ \* live.connect raises
          /\ sent' = [sent EXCEPT ![c] =
                 Written(c, Envelope("error", "Failed to start Gemini Live session"))]
          /\ \E p \in AfterSend(c) : pc' = [pc EXCEPT ![c] = p]
          /\ UNCHANGED <<upstream, gemini_sessions>>
       \/ \* connected
          /\ Len(upstream) < MaxStarts
          /\ gemini_sessions' = Put(gemini_sessions, c, Len(upstream) + 1)
          /\ sent' = [sent EXCEPT ![c] =
                 Written(c, Envelope("gemini-ready", "Gemini Live session started, ready for audio"))]
          /\ \/ /\ conn[c] = "open"
                /\ upstream' =
                     Append(upstream,
                            [Session(c, "open") EXCEPT !.task = "running"])
                /\ UNCHANGED pc
             \/ /\ conn[c] = "open"
                /\ upstream' = Append(upstream, Session(c, "open"))
                /\ pc' = [pc EXCEPT ![c] = "in_send_ready"]
             \/ /\ conn[c] # "open"
                /\ upstream' = Append(upstream, Session(c, "open"))
                /\ UNCHANGED pc
    /\ UNCHANGED <<server, conn, nframes, clients, conversations,
                   uuid_next, gemini_connections, gr_input, gr_output>>

Aud_send_audio_to_gemini(c) ==
    /\ Aud_next_is(c, "audio-data")
    /\ inbox' = [inbox EXCEPT ![c] = Tail(@)]
    /\ IF c \notin DOMAIN gemini_sessions
         THEN UNCHANGED <<sent, pc>>          \* logger.warning, return
       ELSE IF /\ Head(inbox[c]).field.t = "str"
               /\ upstream[gemini_sessions[c]].state = "open"
         THEN UNCHANGED <<sent, pc>>          \* decoded and forwarded
       ELSE \* b64decode or session.send raises
            /\ sent' = [sent EXCEPT ![c] =
                   Written(c, Envelope("error", "Failed to send audio to Gemini"))]
            /\ \E p \in AfterSend(c) : pc' = [pc EXCEPT ![c] = p]
    /\ UNCHANGED <<server, conn, nframes, clients, conversations,
                   uuid_next, gemini_connections, gemini_sessions, upstream,
                   gr_input, gr_output>>

\* A suspended `await websocket.send(...)` of the message loop returns (or
\* raises, the client being gone).  After an error envelope nothing more
\* is done; after gemini-ready the relay task is created if the send
\* returned, and if it raised the except clause's own send raises too.
Aud_send_returns(c) ==
    /\ server = "gemini-live-audio"
    /\ \/ /\ pc[c] = "in_send"
          /\ UNCHANGED upstream
       \/ /\ pc[c] = "in_send_ready"
          /\ upstream' =
               [upstream EXCEPT ![gemini_sessions[c]].task = "running"]
       \/ /\ pc[c] = "in_send_ready"
          /\ conn[c] # "open"
          /\ UNCHANGED upstream
    /\ pc' = [pc EXCEPT ![c] = "loop"]
    /\ UNCHANGED <<server, conn, inbox, nframes, clients, conversations,
                   uuid_next, sent, gemini_connections, gemini_sessions,
                   gr_input, gr_output>>

Aud_stop_gemini_session(c) ==
    /\ Aud_next_is(c, "stop-gemini")
    /\ inbox' = [inbox EXCEPT ![c] = Tail(@)]
    /\ IF c \in DOMAIN gemini_sessions
         THEN /\ upstream' = Closed(upstream, gemini_sessions[c])
              /\ gemini_sessions' = Del(gemini_sessions, c)
         ELSE UNCHANGED <<upstream, gemini_sessions>>
    /\ UNCHANGED <<server, conn, nframes, pc, clients, conversations,
                   uuid_next, sent, gemini_connections, gr_input, gr_output>>

Aud_log_only(c) ==
    /\ server = "gemini-live-audio"
    /\ pc[c] = "loop"
    /\ inbox[c] # <<>>
    /\ \/ Head(inbox[c]).json # "object"
       \/ Head(inbox[c]).type
            \notin {"start-gemini", "audio-data", "stop-gemini"}
    /\ inbox' = [inbox EXCEPT ![c] = Tail(@)]
    /\ UNCHANGED <<server, conn, nframes, pc, clients, conversations,
                   uuid_next, sent, gemini_connections, gemini_sessions,
                   upstream, gr_input, gr_output>>

Aud_stream_end(c) ==
    /\ server = "gemini-live-audio"
    /\ pc[c] = "loop"
    /\ inbox[c] = <<>>
    /\ conn[c] = "closed"
    /\ pc' = [pc EXCEPT ![c] = "finally"]
    /\ UNCHANGED <<server, conn, inbox, nframes, clients, conversations,
                   uuid_next, sent, gemini_connections, gemini_sessions,
                   upstream, gr_input, gr_output>>

Aud_unregister_client(c) ==
    /\ server = "gemini-live-audio"
    /\ pc[c] = "finally"
    /\ LET r == unregister_client(Held(gemini_sessions), c) IN
         /\ clients' = r.clients
         /\ gemini_sessions' = r.map
         /\ upstream' = r.upstream
    /\ pc' = [pc EXCEPT ![c] = "done"]
    /\ UNCHANGED <<server, conn, inbox, nframes, conversations, uuid_next,
                   sent, gemini_connections, gr_input, gr_output>>

\* handle_gemini_responses: one response of a turn.  A send to a client
\* that is gone raises into the outer except, whose own send raises again:
\* the task ends with that exception.
Aud_relay_response(s) ==
    /\ s \in Sessions
    /\ server = "gemini-live-audio"
    /\ upstream[s].task = "running"
    /\ upstream[s].state = "open"
    /\ ReceivedUpTo(Len(upstream)) < MaxResponses
    /\ \E response \in ResponseKinds :
       LET c == upstream[s].owner IN
         IF response \in {"audio", "both"}
           THEN \* response.data: sent, then `continue`
                /\ sent' = [sent EXCEPT ![c] =
                       Written(c, Envelope("gemini-audio-response", "data"))]
                /\ \E t \in (IF conn[c] = "open" THEN TaskAfterSend(c)
                                                  ELSE {"crashed"}) :
                     upstream' = [upstream EXCEPT ![s].received = @ + 1,
                                                  ![s].last = response,
                                                  ![s].task = t]
         ELSE IF response = "text"
           THEN \* response.text
                /\ sent' = [sent EXCEPT ![c] =
                       Written(c, Envelope("gemini-response", "text"))]
                /\ \E t \in (IF conn[c] = "open" THEN TaskAfterSend(c)
                                                  ELSE {"crashed"}) :
                     upstream' = [upstream EXCEPT ![s].received = @ + 1,
                                                  ![s].last = response,
                                                  ![s].task = t]
         ELSE \* neither
                /\ upstream' = [upstream EXCEPT ![s].received = @ + 1,
                                                ![s].last = response]
                /\ UNCHANGED sent
    /\ UNCHANGED <<server, conn, inbox, nframes, pc, clients, conversations,
                   uuid_next, gemini_connections, gemini_sessions,
                   gr_input, gr_output>>

\* handle_gemini_responses: receive raises on a channel that was closed or
\* lost; the except clause reports it to the client.
Aud_relay_fail(s) ==
    /\ s \in Sessions
    /\ server = "gemini-live-audio"
    /\ upstream[s].task = "running"
    /\ upstream[s].state # "open"
    /\ LET c == upstream[s].owner IN
         /\ sent' = [sent EXCEPT ![c] =
                Written(c, Envelope("error", "Error handling Gemini responses"))]
         /\ \E t \in (IF conn[c] = "open" THEN {"ended", "in_send_error"}
                                           ELSE {"crashed"}) :
              upstream' = [upstream EXCEPT ![s].task = t]
    /\ UNCHANGED <<server, conn, inbox, nframes, pc, clients, conversations,
                   uuid_next, gemini_connections, gemini_sessions,
                   gr_input, gr_output>>

\* handle_gemini_responses: a suspended send to the client returns, or
\* raises, the client being gone.  After a relayed response the loop goes
\* on, after the error envelope the task ends; a send that raises goes to
\* the except clause, whose own send raises again.
Aud_relay_send_returns(s) ==
    /\ s \in Sessions
    /\ server = "gemini-live-audio"
    /\ \/ /\ upstream[s].task = "in_send"
          /\ upstream' = [upstream EXCEPT ![s].task = "running"]
       \/ /\ upstream[s].task = "in_send_error"
          /\ upstream' = [upstream EXCEPT ![s].task = "ended"]
       \/ /\ upstream[s].task \in {"in_send", "in_send_error"}
          /\ conn[upstream[s].owner] # "open"
          /\ upstream' = [upstream EXCEPT ![s].task = "crashed"]
    /\ UNCHANGED <<server, conn, inbox, nframes, pc, clients, conversations,
                   uuid_next, sent, gemini_connections, gemini_sessions,
                   gr_input, gr_output>>

-----------------------------------------------------------------------------
(* The specifications *)

Servers ==
    {"conversation-server", "gemini-live-server", "gemini-live-audio"}

InitOf(program) ==
    /\ server = program
    /\ conn = [c \in Conns |-> "none"]
    /\ inbox = [c \in Conns |-> <<>>]
    /\ nframes = 0
    /\ pc = [c \in Conns |-> "idle"]
    /\ clients = {}
    /\ conversations = EmptyDict
    /\ uuid_next = 1
    /\ sent = [c \in Conns |-> <<>>]
    /\ gemini_connections = EmptyDict
    /\ gemini_sessions = EmptyDict
    /\ upstream = <<>>
    /\ gr_input = <<>>
    /\ gr_output = <<>>

Init == \E program \in Servers : InitOf(program)

NextClient ==
    \E c \in Conns :
        \/ Connect(c)
        \/ ClientSend(c)
        \/ ClientClose(c)

NextConv ==
    \E c \in Conns :
        \/ Conv_register_client(c)
        \/ Conv_handle_message(c)
        \/ Conv_stream_end(c)
        \/ Conv_unregister_client(c)

NextGem ==
    \/ \E c \in Conns :
        \/ Gem_register_client(c)
        \/ Gem_connect_to_gemini(c)
        \/ Gem_setup_response(c)
        \/ Gem_send_audio_to_gemini(c)
        \/ Gem_send_returns(c)
        \/ Gem_stop_gemini_connection(c)
        \/ Gem_log_only(c)
        \/ Gem_stream_end(c)
        \/ Gem_unregister_client(c)
    \/ \E s \in 1..MaxStarts :
        \/ UpstreamLost(s)
        \/ Gem_relay_response(s)
        \/ Gem_relay_send_returns(s)
        \/ Gem_relay_end(s)

NextAud ==
    \/ \E c \in Conns :
        \/ Aud_register_client(c)
        \/ Aud_start_gemini_session(c)
        \/ Aud_send_audio_to_gemini(c)
        \/ Aud_send_returns(c)
        \/ Aud_stop_gemini_session(c)
        \/ Aud_log_only(c)
        \/ Aud_stream_end(c)
        \/ Aud_unregister_client(c)
    \/ \E s \in 1..MaxStarts :
        \/ UpstreamLost(s)
        \/ Aud_relay_response(s)
        \/ Aud_relay_send_returns(s)
        \/ Aud_relay_fail(s)

\* The three programs, one per behaviour.
Next == NextClient \/ NextConv \/ NextGem \/ NextAud

Spec == Init /\ [][Next]_vars

\* conversation-server.py alone
SpecConv == InitOf("conversation-server") /\ [][NextClient \/ NextConv]_vars

\* gemini-live-server.py alone
SpecGem == InitOf("gemini-live-server") /\ [][NextClient \/ NextGem]_vars

\* What the message loop of c does on its own in gemini-live-server.py,
\* the upstream having nothing to deliver: every step but the arrival of
\* the setup response; `recv` raising on a channel that was lost is one.
Gem_handler_step(c) ==
    \/ Gem_register_client(c)
    \/ Gem_connect_to_gemini(c)
    \/ Gem_setup_response(c) /\ upstream[gemini_connections[c]].state = "lost"
    \/ Gem_send_audio_to_gemini(c)
    \/ Gem_send_returns(c)
    \/ Gem_stop_gemini_connection(c)
    \/ Gem_log_only(c)
    \/ Gem_stream_end(c)
    \/ Gem_unregister_client(c)

\* gemini-live-server.py under the event loop's scheduling: a handler or
\* relay task that can run is run.  What the client and the upstream do,
\* an answer to the setup message included, is up to them.
FairSpecGem ==
    /\ SpecGem
    /\ \A c \in Conns : WF_vars(Gem_handler_step(c))
    /\ \A s \in 1..MaxStarts :
          WF_vars(Gem_relay_send_returns(s) \/ Gem_relay_end(s))

\* gemini-live-audio.py alone
SpecAud == InitOf("gemini-live-audio") /\ [][NextClient \/ NextAud]_vars

\* generate_response on its own: one input, one call.
InitGen ==
    /\ server = "generate_response"
    /\ conn = [c \in Conns |-> "none"]
    /\ inbox = [c \in Conns |-> <<>>]
    /\ nframes = 0
    /\ pc = [c \in Conns |-> "idle"]
    /\ clients = {}
    /\ conversations = EmptyDict
    /\ uuid_next = 1
    /\ sent = [c \in Conns |-> <<>>]
    /\ gemini_connections = EmptyDict
    /\ gemini_sessions = EmptyDict
    /\ upstream = <<>>
    /\ gr_input \in Inputs
    /\ gr_output = <<>>

Call_generate_response ==
    /\ server = "generate_response"
    /\ gr_output = <<>>
    /\ gr_output' = generate_response(gr_input)
    /\ UNCHANGED <<server, conn, inbox, nframes, pc, clients, conversations,
                   uuid_next, sent, gemini_connections, gemini_sessions,
                   upstream, gr_input>>

NextGen == Call_generate_response

SpecGen == InitGen /\ [][NextGen]_vars

-----------------------------------------------------------------------------
(* Vocabulary of the properties *)

\* handle_client has returned or raised for connection c.
Finished(c) == pc[c] \in {"done", "raised"}

\* c is a key of the per-connection map of the running server.
InMap(c) ==
    \/ c \in DOMAIN conversations
    \/ c \in DOMAIN gemini_connections
    \/ c \in DOMAIN gemini_sessions

\* The upstream session attached to c, when InMap(c) in a Gemini server.
AttachedTo(c) ==
    IF c \in DOMAIN gemini_connections THEN gemini_connections[c]
    ELSE gemini_sessions[c]

HasSession(c) ==
    c \in DOMAIN gemini_connections \/ c \in DOMAIN gemini_sessions

\* This step is the message loop of c taking a JSON object of this type.
Takes(c, type) ==
    /\ pc[c] = "loop"
    /\ inbox[c] # <<>>
    /\ Head(inbox[c]).json = "object"
    /\ Head(inbox[c]).type = type
    /\ inbox'[c] = Tail(inbox[c])

\* This step is the message loop of c taking text that is no JSON.
TakesNotJson(c) ==
    /\ pc[c] = "loop"
    /\ inbox[c] # <<>>
    /\ Head(inbox[c]).json = "notjson"
    /\ inbox'[c] = Tail(inbox[c])

\* The message loop of c is running: between two frames or inside the
\* handling of one.
LoopGoesOn(c) == pc[c] \in {"loop", "in_send", "in_send_ready", "await_setup"}

\* This step writes exactly one envelope to c, an error envelope.
SendsError(c) ==
    /\ Len(sent'[c]) = Len(sent[c]) + 1
    /\ SubSeq(sent'[c], 1, Len(sent[c])) = sent[c]
    /\ sent'[c][Len(sent'[c])].type = "error"

-----------------------------------------------------------------------------
(* C1 *)

\* C1: once handle_client has finished for a connection, however it ended,
\* the connection is neither in `clients` nor a key of the per-connection
\* map: no registry entry outlives its connection.
C1_NoEntryOutlivesHandler ==
    \A c \in Conns : Finished(c) => (c \notin clients /\ ~InMap(c))

-----------------------------------------------------------------------------
(* C2 *)

\* C2: when a client's teardown (unregister_client) has completed, every
\* upstream session that was ever opened for that client is closed.
C2_NoSessionOpenAfterTeardown ==
    \A s \in Sessions :
        pc[upstream[s].owner] = "done" => upstream[s].state # "open"

-----------------------------------------------------------------------------
(* C3 *)

OpenSessionsOf(c) ==
    {s \in Sessions : upstream[s].owner = c /\ upstream[s].state = "open"}

\* The relay tasks of c that have not ended: waiting for a response or
\* suspended in a send to the client.
RunningTasksOf(c) ==
    {s \in Sessions :
        /\ upstream[s].owner = c
        /\ upstream[s].task \in {"running", "in_send", "in_send_error"}}

\* C3: in every reachable state each client has at most one open upstream
\* session and at most one running relay task (a start-gemini with a
\* session attached opens nothing and spawns nothing).
C3_AtMostOneSessionAndTask ==
    \A c \in Conns :
        /\ Cardinality(OpenSessionsOf(c)) <= 1
        /\ Cardinality(RunningTasksOf(c)) <= 1

-----------------------------------------------------------------------------
(* C4 *)

\* C4: an audio-data frame taken for a client with no upstream session
\* attached is answered with an error envelope (the client still being
\* there to receive it), and the message loop goes on.
C4_AudioWithoutSessionIsReported ==
    [][\A c \in Conns :
         (Takes(c, "audio-data") /\ ~HasSession(c) /\ conn[c] = "open")
           => (SendsError(c) /\ LoopGoesOn(c)')]_vars

-----------------------------------------------------------------------------
(* C5 *)

\* C5: in all three servers a frame that is no JSON makes the server send
\* the client an error envelope, and the message loop keeps running.
C5_MalformedFrameIsReported ==
    [][\A c \in Conns :
         (TakesNotJson(c) /\ conn[c] = "open")
           => (SendsError(c) /\ LoopGoesOn(c)')]_vars

-----------------------------------------------------------------------------
(* C6 *)

\* This step is handle_text_message for c; `data` is the frame.
TakesText(c) == Takes(c, "text_message") /\ server = "conversation-server"

\* The step appends a user entry with the message received, then an
\* assistant entry with the generated reply, and what it writes to the
\* client, if anything, is one text_response with that same reply.
AppendsUserThenAssistant(c) ==
    LET data == Head(inbox[c])
        m == IF data.field.t = "absent" THEN Str(<<>>) ELSE data.field
        old == conversations[c].history
        new == conversations'[c].history
        n == Len(old)
    IN  /\ Len(new) = n + 2
        /\ SubSeq(new, 1, n) = old
        /\ new[n + 1].role = "user"
        /\ new[n + 1].message = m
        /\ new[n + 2].role = "assistant"
        /\ m.t = "str" => new[n + 2].message = Str(generate_response(m.v))
        /\ \/ sent'[c] = sent[c]
           \/ sent'[c] =
                Append(sent[c], Envelope("text_response", new[n + 2].message))

\* C6 as claimed: processing one text_message frame, whatever it carries,
\* appends exactly two entries, user then assistant, and the text_response
\* carries the assistant entry's reply.
C6_EveryTextMessageAppendsTwo ==
    [][\A c \in Conns : TakesText(c) => AppendsUserThenAssistant(c)]_vars

\* C6 as amended: processing one text_message frame whose message is a
\* string (or is missing, which reads as "") appends exactly two entries,
\* user then assistant, and the text_response carries the assistant
\* entry's reply.
C6_StringTextMessageAppendsTwo ==
    [][\A c \in Conns :
         (TakesText(c) /\ Head(inbox[c]).field.t \in {"str", "absent"})
           => AppendsUserThenAssistant(c)]_vars

\* A second text_message was processed on top of the first one's pair and
\* both replies went out.
C6_Witness ==
    \E c \in Conns :
        /\ c \in DOMAIN conversations
        /\ Len(conversations[c].history) = 4
        /\ conversations[c].history[3].role = "user"
        /\ conversations[c].history[4].role = "assistant"
        /\ Len(sent[c]) = 3
        /\ sent[c][3].type = "text_response"
        /\ sent[c][3].body = conversations[c].history[4].message

-----------------------------------------------------------------------------
(* C7 *)

\* The rules in the order claimed: triggers and fixed reply.
Rules ==
    << [triggers |-> {T_hello, T_hi}, reply |-> R_hello],
       [triggers |-> {T_how_are_you}, reply |-> R_how],
       [triggers |-> {T_what_is_your_name}, reply |-> R_name],
       [triggers |-> {T_help}, reply |-> R_help],
       [triggers |-> {T_bye, T_goodbye}, reply |-> R_bye],
       [triggers |-> {T_thank}, reply |-> R_thank] >>

Matching(text) ==
    {i \in 1..Len(Rules) : \E t \in Rules[i].triggers : In(t, lower(text))}

FirstMatchReply(text) ==
    IF Matching(text) = {} THEN EchoReply(text)
    ELSE Rules[CHOOSE i \in Matching(text) :
                 \A j \in Matching(text) : i <= j].reply

\* C7: generate_response returns the fixed reply of the first rule, in the
\* order (hello|hi), (how are you), (what is your name), (help),
\* (bye|goodbye), (thank), one of whose triggers is a substring of the
\* lower-cased input, and the echo template around the input verbatim when
\* there is none; "Hello there" yields "Hello! How can I help you today?".
C7_FirstMatchingRuleWins ==
    gr_output # <<>> =>
        /\ gr_output = FirstMatchReply(gr_input)
        /\ gr_input = M_hello_there
             => gr_output = <<"Hello! How can I help you today?">>
        /\ gr_input = M_ok
             => gr_output = <<"I understand you said: '", "O", "K",
                              "'. How can I assist you further?">>

\* An input on which two rules match ("Thanks bye": bye, then thank) has
\* been answered by the earlier one.
C7_Witness ==
    /\ Cardinality(Matching(gr_input)) = 2
    /\ In(T_thank, lower(gr_input))
    /\ gr_output = R_bye

-----------------------------------------------------------------------------
(* C8 *)

\* C8: when the client connection has closed and its teardown has
\* completed, the client's entry is removed and no relay task of that
\* client keeps running.  A relay task is blocked on its session's
\* receive, and what ends it is that session being closed (or lost); so a
\* relay task that has not ended yet when teardown has completed is on a
\* session that is no longer open, and its next step ends it.
C8_NoRelayTaskLeftAfterTeardown ==
    \A c \in Conns :
        pc[c] = "done" =>
            /\ c \notin clients
            /\ ~InMap(c)
            /\ \A s \in RunningTasksOf(c) : upstream[s].state # "open"

-----------------------------------------------------------------------------
(* C9 *)

\* This step is (part of) the handling of start-gemini for c.
StartStep(c) ==
    \/ Takes(c, "start-gemini")
    \/ pc[c] = "await_setup" /\ pc'[c] # "await_setup"

\* The upstream sessions the start-gemini being handled has opened.
OpenedByAttempt(c) ==
    IF pc[c] = "await_setup" THEN {gemini_connections[c]}
    ELSE (Len(upstream) + 1)..Len(upstream')

\* C9: when starting the upstream session fails (the client is sent the
\* error envelope), no upstream session is attached to that client
\* afterwards and no upstream connection opened by that attempt is open.
C9_FailedStartLeavesNothing ==
    [][\A c \in Conns :
         (StartStep(c) /\ SendsError(c))
           => /\ c \notin DOMAIN gemini_connections'
              /\ c \notin DOMAIN gemini_sessions'
              /\ \A s \in OpenedByAttempt(c) : upstream'[s].state # "open"]_vars

-----------------------------------------------------------------------------
(* C10 *)

\* This step is an upstream send failing for c: an audio-data frame taken
\* with a session attached whose channel is not open.
UpstreamSendFails(c) ==
    /\ Takes(c, "audio-data")
    /\ HasSession(c)
    /\ upstream[AttachedTo(c)].state # "open"

\* This step is the relay task of session s ending because its receive
\* sequence failed.
UpstreamReceiveFails(s) ==
    /\ upstream[s].task = "running"
    /\ upstream[s].state = "lost"
    /\ upstream'[s].task # "running"

\* C10: after an upstream send fails or the upstream receive sequence
\* fails for a client, that client's upstream session is closed and
\* detached, so that a later audio-data frame finds no session.
C10_UpstreamFailureDetaches ==
    [][/\ \A c \in Conns :
            UpstreamSendFails(c)
              => (c \notin DOMAIN gemini_connections'
                  /\ c \notin DOMAIN gemini_sessions')
       /\ \A s \in Sessions :
            UpstreamReceiveFails(s)
              => \A c \in Conns :
                   /\ c \in DOMAIN gemini_connections'
                        => gemini_connections'[c] # s
                   /\ c \in DOMAIN gemini_sessions'
                        => gemini_sessions'[c] # s]_vars

-----------------------------------------------------------------------------
(* C11 *)

\* This step is taken for connection a: its handle_client moves
\* (registration, a frame handled, unregistration) or a relay task of one
\* of its upstream sessions does.
ActsFor(a) ==
    \/ pc'[a] # pc[a]
    \/ Len(inbox'[a]) < Len(inbox[a])
    \/ \E s \in Sessions : upstream[s].owner = a /\ upstream'[s] # upstream[s]

\* What the server holds for connection b: its membership of `clients`,
\* its entry of the per-connection map (with the history), and the state
\* of the upstream session attached to it.
HeldFor(b) ==
    [client |-> b \in clients,
     conversation |-> IF b \in DOMAIN conversations
                        THEN <<conversations[b]>> ELSE <<>>,
     attached |-> IF HasSession(b)
                    THEN <<AttachedTo(b), upstream[AttachedTo(b)]>>
                    ELSE <<>>]

\* C11: no step taken for a connection a (a frame handled for it, its
\* registration or its unregistration) changes what the server holds for
\* another connection b: b's registry entry, history and attached upstream
\* session are the same after the step.
C11_SessionsAreIsolated ==
    [][\A a \in Conns : \A b \in Conns \ {a} :
         ActsFor(a) => HeldFor(b)' = HeldFor(b)]_vars

\* One connection has been unregistered while the other still has its
\* entry, with a history, after a frame of its own was handled.
C11_Witness ==
    \E a \in Conns : \E b \in Conns \ {a} :
        /\ pc[a] = "done"
        /\ b \in clients
        /\ b \in DOMAIN conversations
        /\ Len(conversations[b].history) = 2

-----------------------------------------------------------------------------
(* C12 *)

\* The message loop of c is inside `await websocket.send(...)`.
LoopInSend(c) == pc[c] \in {"in_send", "in_send_ready"}

\* The relay task of session s is inside `await websocket.send(...)`.
RelayInSend(s) ==
    s \in Sessions /\ upstream[s].task \in {"in_send", "in_send_error"}

\* C12: the message loop and the response-relay task of the same client
\* are never both inside a send on that client's connection: the sends of
\* the two flows are mutually exclusive.
C12_SendsAreMutuallyExclusive ==
    \A c \in Conns : \A s \in 1..MaxStarts :
        ~(/\ LoopInSend(c)
          /\ RelayInSend(s)
          /\ upstream[s].owner = c)

-----------------------------------------------------------------------------
(* C13 *)

\* C13: the wait for the upstream's setup response is bounded: a handler
\* waiting for it leaves the wait, whether or not the upstream ever
\* answers, and the message loop goes on.
C13_HandshakeWaitIsBounded ==
    \A c \in Conns :
        (pc[c] = "await_setup") ~> (pc[c] \in {"loop", "in_send"})

-----------------------------------------------------------------------------
(* C14 *)

\* C14: a get_history frame is answered with one conversation_history
\* envelope whose history is the client's stored history as it is, entry
\* for entry in the order of insertion; it is the empty list when nothing
\* but the welcome has been sent to the client; and the history is the
\* same after the frame as before.
C14_GetHistoryReturnsTheHistory ==
    [][\A c \in Conns :
         (Takes(c, "get_history") /\ server = "conversation-server")
           => /\ conversations'[c] = conversations[c]
              /\ conn[c] = "open" =>
                   /\ sent'[c] =
                        Append(sent[c],
                               Envelope("conversation_history",
                                        conversations[c].history))
                   /\ Len(sent[c]) = 1 => sent'[c][2].body = <<>>
              /\ conn[c] # "open" => sent'[c] = sent[c]]_vars

\* A get_history was answered after a text_message: the envelope carries
\* the user entry and then the assistant entry.
C14_Witness ==
    \E c \in Conns :
        /\ Len(sent[c]) = 3
        /\ sent[c][3].type = "conversation_history"
        /\ Len(sent[c][3].body) = 2
        /\ sent[c][3].body[1].role = "user"
        /\ sent[c][3].body[2].role = "assistant"
        /\ sent[c][3].body = conversations[c].history

-----------------------------------------------------------------------------
(* C15 *)

IsPrefix(p, q) == Len(p) <= Len(q) /\ SubSeq(q, 1, Len(p)) = p

\* The text_response envelopes written to c, in the order written.
RepliesTo(c) == SelectSeq(sent[c], LAMBDA e : e.type = "text_response")

\* The assistant entries of c's history, in the order stored.
AssistantEntriesOf(c) ==
    SelectSeq(conversations[c].history, LAMBDA e : e.role = "assistant")

\* The k-th text_response written to c carries the k-th assistant entry.
RepliesFollowHistory(c) ==
    c \in DOMAIN conversations =>
        /\ Len(RepliesTo(c)) <= Len(AssistantEntriesOf(c))
        /\ \A k \in 1..Len(RepliesTo(c)) :
             RepliesTo(c)[k].body = AssistantEntriesOf(c)[k].message

\* C15: for one client the frames are handled one after the other in the
\* order received, each to its end before the next is taken, and what a
\* frame adds to the history and to the outbound frames comes after all
\* that earlier frames added: the pair and the text_response of an earlier
\* text_message precede those of a later one.
C15_OrderOfProcessingIsKept ==
    [][\A c \in Conns :
         (/\ server = "conversation-server"
          /\ pc[c] = "loop"
          /\ Len(inbox'[c]) < Len(inbox[c]))
           => /\ inbox'[c] = Tail(inbox[c])
              /\ pc'[c] \in {"loop", "finally"}
              /\ IsPrefix(conversations[c].history,
                          conversations'[c].history)
              /\ IsPrefix(sent[c], sent'[c])
              /\ RepliesFollowHistory(c)']_vars

\* Two text_messages with different replies were handled: both pairs are
\* in the history and both replies went out, the earlier one first.
C15_Witness ==
    \E c \in Conns :
        /\ c \in DOMAIN conversations
        /\ Len(conversations[c].history) = 4
        /\ Len(RepliesTo(c)) = 2
        /\ RepliesTo(c)[1].body = conversations[c].history[2].message
        /\ RepliesTo(c)[2].body = conversations[c].history[4].message
        /\ RepliesTo(c)[1].body # RepliesTo(c)[2].body

-----------------------------------------------------------------------------
(* C16 *)

\* The types the running server has a branch for.
RecognizedTypes ==
    IF server = "conversation-server"
      THEN {"text_message", "audio_message", "get_history"}
      ELSE {"start-gemini", "audio-data", "stop-gemini"}

\* This step is the message loop of c taking a JSON object whose type the
\* server has no branch for; a missing type reads as "".
TakesUnrecognized(c) ==
    /\ pc[c] = "loop"
    /\ inbox[c] # <<>>
    /\ Head(inbox[c]).json = "object"
    /\ Head(inbox[c]).type \notin RecognizedTypes
    /\ inbox'[c] = Tail(inbox[c])

\* C16: in all three servers a JSON object whose type is not recognized,
\* a missing type included, is taken and nothing else happens: nothing is
\* written to any client, no connection is closed, the message loop goes
\* on, and the registry, the histories and the upstream sessions are as
\* they were.
C16_UnrecognizedTypeIsOnlyLogged ==
    [][\A c \in Conns :
         TakesUnrecognized(c)
           => /\ pc'[c] = "loop"
              /\ UNCHANGED <<conn, sent, clients, conversations,
                             gemini_connections, gemini_sessions,
                             upstream>>]_vars

\* The one client there is has sent both frames, one of them is still
\* waiting and has an unrecognized type, and the other was taken without a
\* trace: welcome is all the client got and its history is empty.
C16_Witness ==
    \E c \in Conns :
        /\ server = "conversation-server"
        /\ \A d \in Conns \ {c} : conn[d] = "none"
        /\ nframes = 2
        /\ pc[c] = "loop"
        /\ conn[c] = "open"
        /\ Len(inbox[c]) = 1
        /\ Head(inbox[c]) = Frame("", Absent)
        /\ Len(sent[c]) = 1
        /\ conversations[c].history = <<>>

-----------------------------------------------------------------------------
(* C17 *)

\* C17: a stop-gemini frame taken for a client with no upstream session
\* attached changes nothing: nothing is closed, nothing is written to the
\* client, no connection is closed and the loop goes on.  Taken with a
\* session attached, it closes that session and detaches it, and no other
\* session is touched.
C17_StopGemini ==
    [][\A c \in Conns :
         Takes(c, "stop-gemini")
           => /\ pc'[c] = "loop"
              /\ UNCHANGED <<conn, sent, clients>>
              /\ ~HasSession(c)
                   => UNCHANGED <<gemini_connections, gemini_sessions,
                                  upstream>>
              /\ HasSession(c)
                   => /\ ~HasSession(c)'
                      /\ upstream'[AttachedTo(c)].state # "open"
                      /\ \A s \in Sessions \ {AttachedTo(c)} :
                           upstream'[s] = upstream[s]]_vars

\* A session was closed by stop-gemini: its owner's loop is still running,
\* the client is still connected and has no session attached.
C17_Witness ==
    \E s \in Sessions :
        /\ upstream[s].state = "closed"
        /\ pc[upstream[s].owner] = "loop"
        /\ conn[upstream[s].owner] = "open"
        /\ ~HasSession(upstream[s].owner)

-----------------------------------------------------------------------------
(* C18 *)

\* What the running server holds, as unregister_client sees it.
HeldNow ==
    IF server = "conversation-server" THEN Held(conversations)
    ELSE IF server = "gemini-live-server" THEN Held(gemini_connections)
    ELSE Held(gemini_sessions)

\* unregister_client of the running server.
Unregister(held, c) ==
    IF server = "conversation-server" THEN Conv_unregister(held, c)
    ELSE unregister_client(held, c)

\* What is held after a call that returned r.
HeldAfter(r) ==
    [clients |-> r.clients, map |-> r.map, upstream |-> r.upstream]

\* C18: in every state the servers reach, unregister_client called for a
\* connection that is neither in `clients` nor in the map changes nothing,
\* closes nothing and raises nothing; and called twice in a row for any
\* connection, the second call raises nothing, closes nothing and leaves
\* what the first call left.
C18_UnregisterIsIdempotent ==
    \A c \in Conns :
        LET once == Unregister(HeldNow, c)
            twice == Unregister(HeldAfter(once), c)
        IN  /\ ~once.raised
            /\ ~twice.raised
            /\ HeldAfter(twice) = HeldAfter(once)
            /\ twice.closed = {}
            /\ (c \notin clients /\ c \notin DOMAIN HeldNow.map)
                 => (HeldAfter(once) = HeldNow /\ once.closed = {})

\* One connection has been unregistered and is absent from the registry;
\* the other is registered with an open session attached, which the first
\* of two calls would close.
C18_Witness ==
    \E c \in Conns : \E d \in Conns \ {c} :
        /\ pc[c] = "done"
        /\ c \notin clients
        /\ ~HasSession(c)
        /\ d \in clients
        /\ HasSession(d)
        /\ upstream[AttachedTo(d)].state = "open"
        /\ Unregister(HeldNow, d).closed = {AttachedTo(d)}

-----------------------------------------------------------------------------
(* C19 *)

\* Session s is torn down: it is not open and attached to no connection.
TornDown(s) ==
    /\ upstream[s].state # "open"
    /\ \A c \in Conns : HasSession(c) => AttachedTo(c) # s

\* C19: when the relay task of a session ends because its receive failed
\* (the channel was lost), the owning client is written an error envelope
\* or the session is torn down; and no step ends a relay task with an
\* exception that nothing handles.
C19_ReceiveFailureIsReportedOrTornDown ==
    [][\A s \in Sessions :
         /\ UpstreamReceiveFails(s)
              => (SendsError(upstream[s].owner) \/ TornDown(s)')
         /\ upstream'[s].task # "crashed"]_vars

-----------------------------------------------------------------------------
(* C20 *)

\* This step writes exactly one envelope to c, a gemini-ready.
SendsReady(c) ==
    /\ Len(sent'[c]) = Len(sent[c]) + 1
    /\ SubSeq(sent'[c], 1, Len(sent[c])) = sent[c]
    /\ sent'[c][Len(sent'[c])].type = "gemini-ready"

\* This step creates no relay task for c.
SpawnsNoTask(c) ==
    \A s \in 1..Len(upstream') :
        upstream'[s].owner = c =>
            IF s \in Sessions THEN upstream'[s].task = upstream[s].task
            ELSE upstream'[s].task = "none"

\* After this step c has an open session attached whose relay task is
\* running or is created as soon as the send of gemini-ready returns.
ReadyIsTrue(c) ==
    /\ HasSession(c)'
    /\ upstream'[AttachedTo(c)'].state = "open"
    /\ \/ upstream'[AttachedTo(c)'].task = "running"
       \/ pc'[c] = "in_send_ready"

\* C20: the step that brings the handling of a start-gemini frame to its
\* outcome, the client being connected, writes the client exactly one
\* envelope: a gemini-ready, and then an open session is attached and its
\* relay task is running or about to be, or an error envelope, and then
\* the step has created no relay task.  It never leaves a task running
\* and nothing written.
C20_StartEndsWithReadyOrError ==
    [][\A c \in Conns :
         (StartStep(c) /\ pc'[c] # "await_setup" /\ conn[c] = "open")
           => \/ SendsReady(c) /\ ReadyIsTrue(c)
              \/ SendsError(c) /\ SpawnsNoTask(c)]_vars

-----------------------------------------------------------------------------
(* C21 *)

\* This step is the relay task of session s taking one upstream response.
RelayTakes(s) ==
    /\ s \in Sessions
    /\ upstream'[s].received = upstream[s].received + 1

\* This step writes exactly one envelope to c, of this type.
SendsOne(c, type) ==
    /\ Len(sent'[c]) = Len(sent[c]) + 1
    /\ SubSeq(sent'[c], 1, Len(sent[c])) = sent[c]
    /\ sent'[c][Len(sent'[c])].type = type

\* C21: the relay task taking one upstream response, the owning client
\* being connected, writes nothing to any other client and at most one
\* envelope to the owner, after all that was written before: one
\* gemini-response for a response with text, one gemini-audio-response
\* for a response with audio bytes, one of the two for a response with
\* both, and nothing for a response with neither, after which the task is
\* still running.
C21_RelayTranslatesEachResponse ==
    [][\A s \in 1..MaxStarts :
         (RelayTakes(s) /\ conn[upstream[s].owner] = "open")
           => LET c == upstream[s].owner
                  response == upstream'[s].last
              IN  /\ \A d \in Conns \ {c} : sent'[d] = sent[d]
                  /\ response = "text" => SendsOne(c, "gemini-response")
                  /\ response = "audio"
                       => SendsOne(c, "gemini-audio-response")
                  /\ response = "both"
                       => \/ SendsOne(c, "gemini-response")
                          \/ SendsOne(c, "gemini-audio-response")
                  /\ response = "neither"
                       => /\ sent'[c] = sent[c]
                          /\ upstream'[s].task = "running"]_vars

-----------------------------------------------------------------------------
(* C22 *)

\* C22: in every step, for a client that has its registry entry before and
\* after it, the history after the step has the history before it as a
\* prefix, and it is a different one only when the step is the handling of
\* a text_message of that client: an audio_message, a get_history, an
\* unrecognized frame and a malformed frame leave it as it was.
C22_HistoryIsAppendOnly ==
    [][\A c \in Conns :
         (c \in DOMAIN conversations /\ c \in DOMAIN conversations')
           => /\ IsPrefix(conversations[c].history,
                          conversations'[c].history)
              /\ conversations'[c].history # conversations[c].history
                   => Takes(c, "text_message")]_vars

\* An audio_message was handled after a text_message: its answer went out
\* and the history is the pair the text_message left.
C22_Witness ==
    \E c \in Conns :
        /\ c \in DOMAIN conversations
        /\ Len(sent[c]) = 3
        /\ sent[c][2].type = "text_response"
        /\ sent[c][3].type = "audio_response"
        /\ Len(conversations[c].history) = 2

-----------------------------------------------------------------------------
(* C23 *)

\* The welcome envelopes written to c.
WelcomesTo(c) == SelectSeq(sent[c], LAMBDA e : e.type = "welcome")

\* Whatever was written to c starts with its one welcome, and the welcome
\* carries the id stored in c's registry entry.
WelcomeFirstAndOnly(c) ==
    /\ Len(WelcomesTo(c)) <= 1
    /\ sent[c] # <<>> => sent[c][1].type = "welcome"
    /\ (sent[c] # <<>> /\ c \in DOMAIN conversations)
         => sent[c][1].body = conversations[c].id

\* C23 as claimed: every connection the server has started to handle has
\* been sent exactly one welcome, which is the first outbound frame on it
\* and carries the client id stored in its registry entry.
C23_WelcomeOncePerConnection ==
    \A c \in Conns :
        /\ WelcomeFirstAndOnly(c)
        /\ pc[c] # "idle" => Len(WelcomesTo(c)) = 1

\* C23 as amended: every connection that was open when register_client
\* ran has been sent exactly one welcome, which is the first outbound
\* frame on it and carries the client id stored in its registry entry; a
\* connection that was closed by then is sent nothing at all.
C23_WelcomeOncePerOpenConnection ==
    \A c \in Conns :
        /\ WelcomeFirstAndOnly(c)
        /\ pc[c] \in {"loop", "finally", "done"} => Len(WelcomesTo(c)) = 1
        /\ pc[c] = "raised" => sent[c] = <<>>

\* The second connection to register got the second id in its welcome,
\* before the two answers that followed.
C23_Witness ==
    \E c \in Conns :
        /\ c \in DOMAIN conversations
        /\ conversations[c].id = 2
        /\ Len(sent[c]) = 3
        /\ sent[c][1] = Envelope("welcome", 2)
        /\ sent[c][2].type # "welcome"
        /\ sent[c][3].type # "welcome"

=============================================================================
